---- MODULE Spec2Model ----
(***************************************************************************)
(* Greenspace analysis: grid construction, per-year cell analysis and the  *)
(* session-scoped progress channel.                                        *)
(*                                                                         *)
(* Three revisions of the analyzer are in the repository:                  *)
(*   "A"  src/unnamed/part_000            real source only, a failed cell  *)
(*                                        is caught and skipped            *)
(*   "B"  src/backend/services/greenpaceAnalyzer.js                        *)
(*                                        no catch in the cell loop, the   *)
(*                                        cell itself falls back           *)
(*   "C"  src/backend/server.js:290-1334  real source first, estimation    *)
(*                                        when it fails                    *)
(*                                                                         *)
(* Lengths are integers in units of 1/64000 degree, so that the edge       *)
(* lengths 0.001 * 1.5^k of the resolution search are exact.  Index values *)
(* (NDVI, thresholds) are integers in units of 1/10000.                    *)
(***************************************************************************)
EXTENDS Integers, Sequences, FiniteSets, TLC

VARIABLES
  \* ---- one year analysis (analyzeGreenpaceForYear) ----
  revision,        \* which revision of the analyzer runs
  MAX_GRID_CELLS,  \* the cell budget
  boundaries,      \* the boundary handed to the analysis
  credentials,     \* SENTINEL_CONFIG.client_id && client_secret
  ypc,             \* "init" | "cells" | "returned" | "thrown" | "off"
  grid,            \* the grid the cell loop iterates over
  filteredCells,   \* what createAnalysisGrid returned, before the cap
  cellIdx,         \* i of the for loop
  totalPixels,
  greenPixels,
  analyzedCells,
  gridResults,
  cellLog,         \* per processed cell: how its samples were obtained
  yearEvents,      \* events the year analysis emitted, in order
  \* ---- sessions and the progress channel (server.js) ----
  session,         \* per session: where its background analysis stands
  published,       \* per session: the events emitted for it, in order
  subs,            \* per subscriber: its SSE response (stream, ended, ...)
  listeners,       \* the subscribers registered on the emitter, in order
  faulty,          \* per subscriber: the event type its callback raises on
  \* ---- one call of a function of the analyzer, taken on its own ----
  args,            \* the arguments of the call
  result,          \* what the call returned, <<>> before it
  \* ---- the OAuth token cache and its concurrent callers ----
  sentinelAccessToken,  \* the cached token, 0 for null
  tokenExpiry,          \* its expiry in ms, 0 for null
  now,                  \* Date.now() in ms
  callers,              \* per caller of getSentinelAccessToken: where it is
  issued,               \* the tokens the OAuth server has granted so far
  \* ---- the web client (App.jsx) ----
  ui,                   \* the React state of App
  effect,               \* the eventSource the mounted effect's cleanup closes
  runs                  \* per call of handleCitySelect: where it is, its stream

yearVars == <<revision, MAX_GRID_CELLS, boundaries, credentials, ypc, grid,
              filteredCells, cellIdx, totalPixels, greenPixels, analyzedCells,
              gridResults, cellLog, yearEvents>>

chanVars == <<session, published, subs, listeners, faulty>>

callVars == <<args, result>>

tokenVars == <<sentinelAccessToken, tokenExpiry, now, callers, issued>>

clientVars == <<ui, effect, runs>>

restVars == <<tokenVars, clientVars>>

vars == <<yearVars, chanVars, callVars, restVars>>

Revisions == {"A", "B", "C"}

\* ------------------------------------------------------------------ bounds
MaxBudget == 3        \* budgets 1..MaxBudget are tried
PixelsPerCell == 2    \* samples per cell (1024, 225 or 100..149 in the code)

\* ------------------------------------------------------- program constants
EdgeStart == 64       \* gridSize = 0.001
EdgeLimit == 640      \* while (... && gridSize < 0.01)
EdgeFixed == 192      \* gridSize = 0.003

Min(a, b) == IF a < b THEN a ELSE b
Max(a, b) == IF a > b THEN a ELSE b

\* Math.ceil(a / b) for a >= 0, b > 0
Ceil(a, b) == (a + b - 1) \div b

\* ------------------------------------------------------------- boundaries
\* A boundary is its bounding box [west, south, west+w, south+h], the shape
\* of the polygon inside it and the cells on which the intersection test of
\* the geometry library raises.  kind "missing" is an absent geometry, on
\* which turf.bbox raises; w = 0 or h = 0 is a degenerate polygon.
Extents == {0, 100, 500, 1500}
Shapes == {"box", "triangle"}
Faults == {"none", "odd", "all"}

\* (south, west) of the places the boundaries lie at
Places == { [name |-> "equator", south |-> 0, west |-> 0],
            [name |-> "toronto", south |-> 2790400, west |-> -5088000],
            [name |-> "amazon", south |-> -192000, west |-> -3840000] }

Boundary(kind, place, w, h, shape, faults) ==
  [kind |-> kind, west |-> place.west, south |-> place.south,
   w |-> w, h |-> h, shape |-> shape, faults |-> faults]

MissingBoundary == Boundary("missing", CHOOSE p \in Places : p.name = "equator",
                            0, 0, "box", "none")

AllBoundaries ==
  {MissingBoundary} \cup
  { Boundary("polygon", p, w, h, s, f) :
      p \in Places, w \in Extents, h \in Extents, s \in Shapes, f \in Faults }

\* turf.bbox(boundaries)
Bbox(b) == <<b.west, b.south, b.west + b.w, b.south + b.h>>

\* ------------------------------------------------------------ grid builder
EstimatedCells(w, h, g) == Ceil(w, g) * Ceil(h, g)

\* the while loop of the adaptive resolution: gridSize *= 1.5
RECURSIVE ResolutionSearch(_, _, _, _)
ResolutionSearch(w, h, g, N) ==
  IF EstimatedCells(w, h, g) > N /\ g < EdgeLimit
    THEN ResolutionSearch(w, h, (g * 3) \div 2, N)
    ELSE g

\* the two nested for loops: lon outer, lat inner, trailing cells clipped
AllCells(bbox, g) ==
  LET west == bbox[1]  south == bbox[2]  east == bbox[3]  north == bbox[4]
      nx == IF east > west THEN Ceil(east - west, g) ELSE 0
      ny == IF north > south THEN Ceil(north - south, g) ELSE 0
  IN [k \in 1..(nx * ny) |->
        LET ix == (k - 1) \div ny
            iy == (k - 1) % ny
        IN <<west + ix * g, south + iy * g,
             Min(west + (ix + 1) * g, east), Min(south + (iy + 1) * g, north)>>]

\* turf.booleanIntersects(cellPolygon, cityBoundaries): "yes", "no" or "raise".
\* The triangle is the lower-left half of the bounding box.
IntersectionTest(b, cell, k) ==
  IF b.faults = "all" \/ (b.faults = "odd" /\ k % 2 = 1) THEN "raise"
  ELSE IF b.shape = "box" THEN "yes"
  ELSE IF (cell[1] - b.west) * b.h + (cell[2] - b.south) * b.w <= b.w * b.h
         THEN "yes" ELSE "no"

\* a filter that drops the cells whose test raised
KeepCellStrict(b, cell, k) == IntersectionTest(b, cell, k) = "yes"

\* the filter loop: a cell is kept when it intersects or when the test raised
KeepCell(b, cell, k) == IntersectionTest(b, cell, k) \in {"yes", "raise"}

RECURSIVE FilterFrom(_, _, _)
FilterFrom(b, cells, k) ==
  IF k > Len(cells) THEN <<>>
  ELSE (IF KeepCell(b, cells[k], k) THEN <<cells[k]>> ELSE <<>>)
         \o FilterFrom(b, cells, k + 1)

createAnalysisGrid(bbox, g, b) == FilterFrom(b, AllCells(bbox, g), 1)

\* revisions A, C: grid.length = MAX_GRID_CELLS when the grid is longer
TruncateGridOff(g, N) == g
TruncateGrid(g, N) == IF Len(g) > N THEN SubSeq(g, 1, N) ELSE g

\* revision B: evenly distributed sample, step = floor(length / MAX)
SampleGridNoCap(g, N) ==
  IF Len(g) > N
    THEN LET step == Len(g) \div N
             n == Cardinality({i \in 0..(Len(g) - 1) : i * step < Len(g)})
         IN [i \in 1..n |-> g[(i - 1) * step + 1]]
    ELSE g
SampleGrid(g, N) ==
  IF Len(g) > N
    THEN LET step == Len(g) \div N
             n == Cardinality({i \in 0..(N - 1) : i * step < Len(g)})
         IN [i \in 1..n |-> g[(i - 1) * step + 1]]
    ELSE g

\* the edge length the revision tiles with
GridEdge(rev, b, N) ==
  IF rev = "B" THEN EdgeFixed ELSE ResolutionSearch(b.w, b.h, EdgeStart, N)

FilteredGrid(rev, b, N) == createAnalysisGrid(Bbox(b), GridEdge(rev, b, N), b)

LimitGrid(rev, g, N) == IF rev = "B" THEN SampleGrid(g, N) ELSE TruncateGrid(g, N)

\* ------------------------------------------------------------- thresholds
\* Twice a coordinate given in tenths of a degree, in length units; the
\* centre of a cell is compared doubled: south + north against 2 * bound.
Deg2(tenths) == tenths * 12800

Abs(x) == IF x < 0 THEN -x ELSE x

InBox(lat2, lon2, latLo, latHi, lonLo, lonHi) ==
  /\ lat2 > Deg2(latLo) /\ lat2 < Deg2(latHi)
  /\ lon2 > Deg2(lonLo) /\ lon2 < Deg2(lonHi)

UrbanBox(lat2, lon2) ==
  \/ InBox(lat2, lon2, 435, 439, -799, -787)
  \/ InBox(lat2, lon2, 492, 494, -1233, -1229)
  \/ InBox(lat2, lon2, 410, 414, 288, 294)
  \/ InBox(lat2, lon2, 356, 358, 1396, 1398)
  \/ InBox(lat2, lon2, 533, 536, -24, -20)

\* revisions A and C
RegionThreshold(lat2, lon2) ==
  IF \/ InBox(lat2, lon2, -150, 50, -750, -450)
     \/ InBox(lat2, lon2, -100, 200, 900, 1400)
     \/ InBox(lat2, lon2, -250, -100, -1600, -1400) THEN 3500
  ELSE IF \/ InBox(lat2, lon2, 450, 500, -1250, -1200)
          \/ InBox(lat2, lon2, 480, 550, -1350, -1200) THEN 3200
  ELSE IF Abs(lat2) > Deg2(350) /\ Abs(lat2) < Deg2(500) THEN 3000
  ELSE IF Abs(lat2) > Deg2(235) /\ Abs(lat2) < Deg2(350) THEN 2800
  ELSE IF \/ InBox(lat2, lon2, 300, 450, -100, 400)
          \/ InBox(lat2, lon2, 320, 420, -1250, -1150)
          \/ InBox(lat2, lon2, -350, -300, -750, -700) THEN 2700
  ELSE IF \/ InBox(lat2, lon2, 300, 500, -1100, -900)
          \/ InBox(lat2, lon2, -400, -250, -650, -550) THEN 2500
  ELSE IF \/ InBox(lat2, lon2, 150, 350, 250, 550)
          \/ InBox(lat2, lon2, 150, 350, -100, 250)
          \/ InBox(lat2, lon2, -350, -200, 1100, 1550)
          \/ InBox(lat2, lon2, 250, 450, -1200, -1000) THEN 2000
  ELSE IF Abs(lat2) > Deg2(500) THEN 2800
  ELSE 3000

getVegetationThresholdA(cell) ==
  LET lat2 == cell[2] + cell[4]
      lon2 == cell[1] + cell[3]
      t == RegionThreshold(lat2, lon2)
  IN IF UrbanBox(lat2, lon2) THEN (t * 9) \div 10 ELSE t

\* revision B
getVegetationThresholdB(cell) ==
  LET lat2 == cell[2] + cell[4]
      lon2 == cell[1] + cell[3]
      t == IF \/ InBox(lat2, lon2, -150, 150, -750, -450)
              \/ InBox(lat2, lon2, -100, 200, 900, 1400)
              \/ InBox(lat2, lon2, -250, -100, -1600, -1400) THEN 2000
           ELSE IF Abs(lat2) > Deg2(350) /\ Abs(lat2) < Deg2(500) THEN 1500
           ELSE IF \/ InBox(lat2, lon2, 150, 350, 250, 550)
                   \/ InBox(lat2, lon2, 150, 350, -100, 250)
                   \/ InBox(lat2, lon2, 250, 450, -1200, -1000) THEN 1000
           ELSE 1500
  IN IF InBox(lat2, lon2, 435, 439, -799, -787) THEN 400 ELSE t

getVegetationThreshold(rev, cell) ==
  IF rev = "B" THEN getVegetationThresholdB(cell) ELSE getVegetationThresholdA(cell)

\* -------------------------------------------------------- sample retrieval
\* What the statistics request of callSentinelAPI comes back with:
\*   "error"    the token or the request failed
\*   "nodata"   response.data.data is missing or empty
\*   "nostats"  data points without usable band statistics
\*   "ok"       data points with statistics, of mean index `mean`
\* and the per-pixel variation (Math.random() - 0.5) * 0.2 of the grid that
\* is generated around the mean.
Variations == {-1000, 0, 900}
Means == {3000}
PixelVariations == [1..PixelsPerCell -> Variations]

SourceResponses ==
  {[kind |-> "error", mean |-> 0, var |-> <<>>],
   [kind |-> "nodata", mean |-> 0, var |-> <<>>]}
  \cup {[kind |-> "nostats", mean |-> 0, var |-> v] : v \in PixelVariations}
  \cup {[kind |-> "ok", mean |-> m, var |-> v] : m \in Means, v \in PixelVariations}

Clamp(lo, hi, x) == Max(lo, Min(hi, x))

Thrown == [threw |-> TRUE, values |-> <<>>, source |-> "none"]
Returned(values, source) == [threw |-> FALSE, values |-> values, source |-> source]

\* callSentinelAPI of revisions A and C: raises on a failed request and on
\* an empty response; otherwise a grid of clamped values around the mean of
\* the usable statistics, the mean being 0 when there are none
callSentinelAPI(resp) ==
  IF resp.kind \in {"error", "nodata"} THEN Thrown
  ELSE LET meanVegetation == IF resp.kind = "ok" THEN resp.mean ELSE 0
       IN Returned([p \in 1..Len(resp.var) |->
                      Clamp(-10000, 10000, meanVegetation + resp.var[p])], "real")

\* Values of the estimators (generateGeographicNDVI, generateRealisticNDVIPattern)
EstimateLevels == {1000, 4500}
EstimatedSamples ==
  UNION {[1..n -> EstimateLevels] : n \in PixelsPerCell..(PixelsPerCell + 1)}

\* revision A: real source only, every failure is raised
getRealNDVIDataA(creds, resp) ==
  IF ~creds THEN Thrown
  ELSE LET r == callSentinelAPI(resp)
       IN IF r.threw \/ Len(r.values) = 0 THEN Thrown ELSE r

\* revision C: real source first, geographic estimation otherwise
getRealNDVIDataC(creds, resp, est) ==
  LET r == IF creds THEN callSentinelAPI(resp) ELSE Thrown
  IN IF ~r.threw /\ Len(r.values) > 0 THEN r ELSE Returned(est, "estimated")

\* revision B: callNASAMODISAPI returns generateRealisticNDVIPattern's values;
\* an empty or failed call is turned into []
getRealNDVIDataB(est) ==
  IF Len(est) = 0 THEN Returned(<<>>, "none") ELSE Returned(est, "estimated")

\* the counting loop of analyzeGridCell
CountGreen(ndviData, threshold) ==
  Cardinality({p \in 1..Len(ndviData) : ndviData[p] > threshold})

CellCountsSwapped(ndviData, threshold) ==
  [totalPixels |-> CountGreen(ndviData, threshold), greenPixels |-> Len(ndviData)]
CellCounts(ndviData, threshold) ==
  [totalPixels |-> Len(ndviData), greenPixels |-> CountGreen(ndviData, threshold)]

\* revision B's geographic fallback: 100 pixels, round(baseVegetation * 100) green
FallbackCounts(cell) ==
  LET lat2 == cell[2] + cell[4]
      lon2 == cell[1] + cell[3]
  IN [totalPixels |-> 100,
      greenPixels |-> IF InBox(lat2, lon2, 435, 439, -799, -787) THEN 35 ELSE 15]

\* analyzeGridCell: [threw, totalPixels, greenPixels, source]
CellThrown == [threw |-> TRUE, totalPixels |-> 0, greenPixels |-> 0, source |-> "none"]
CellResult(counts, source) ==
  [threw |-> FALSE, totalPixels |-> counts.totalPixels,
   greenPixels |-> counts.greenPixels, source |-> source]

analyzeGridCell(rev, cell, creds, resp, est) ==
  IF rev = "B"
    THEN LET d == getRealNDVIDataB(est)
         IN IF d.threw \/ Len(d.values) = 0
              THEN CellResult(FallbackCounts(cell), "fallback")
              ELSE CellResult(CellCounts(d.values, getVegetationThreshold(rev, cell)),
                              d.source)
    ELSE LET d == IF rev = "A" THEN getRealNDVIDataA(creds, resp)
                               ELSE getRealNDVIDataC(creds, resp, est)
         IN IF d.threw THEN CellThrown
            ELSE CellResult(CellCounts(d.values, getVegetationThreshold(rev, cell)),
                            d.source)

\* ------------------------------------------------------------ year analysis
\* a / b of two non-negative JS numbers: NaN for 0 / 0
JSDiv(a, b) ==
  IF b = 0 THEN [nan |-> a = 0, inf |-> a # 0, num |-> 0, den |-> 1]
           ELSE [nan |-> FALSE, inf |-> FALSE, num |-> a, den |-> b]

\* totalPixels > 0 ? (greenPixels / totalPixels) * 100 : 0, in 1/100 percent
Percentage(green, total) == IF total > 0 THEN (green * 10000) \div total ELSE 0

\* confidence = analyzedCells / grid.length
Confidence(analyzed, len) == JSDiv(analyzed, len)

\* Math.max(5, Math.floor(grid.length / 50))
progressInterval(len) == Max(5, len \div 50)

\* whether the cell loop wraps a cell in try/catch (A, C) or not (B)
CellCaughtNever(rev) == FALSE
CellCaught(rev) == rev # "B"

\* grid-progress after this cell?  A, C: on the interval and on the last
\* analysed cell; B: after every cell
EmitsProgress(rev, analyzed, len) ==
  IF rev = "B" THEN TRUE
  ELSE analyzed % progressInterval(len) = 0 \/ analyzed = len

Responses(rev) ==
  IF rev = "B" THEN {[kind |-> "unused", mean |-> 0, var |-> <<>>]} ELSE SourceResponses

Estimates(rev) ==
  IF rev = "A" THEN {<<>>}
  ELSE IF rev = "B" THEN EstimatedSamples
  ELSE [1..PixelsPerCell -> EstimateLevels]

CellOutcome(c) ==
  IF c.threw THEN "failed"
  ELSE IF c.source = "real" THEN "succeeded"
  ELSE IF c.source = "fallback" THEN "fallback"
  ELSE "estimated"

\* the head of analyzeGreenpaceForYear: bounding box, grid, cap, grid-started
YearStart ==
  /\ ypc = "init"
  /\ IF boundaries.kind = "missing"
       THEN /\ ypc' = "thrown"
            /\ yearEvents' = <<"error">>
            /\ UNCHANGED <<grid, filteredCells>>
       ELSE LET f == FilteredGrid(revision, boundaries, MAX_GRID_CELLS)
                g == LimitGrid(revision, f, MAX_GRID_CELLS)
                started == IF revision = "B" THEN <<>> ELSE <<"grid-started">>
            IN /\ filteredCells' = f
               /\ grid' = g
               /\ IF Len(g) = 0
                    THEN /\ ypc' = "returned"
                         /\ yearEvents' = started \o <<"year-completed">>
                    ELSE /\ ypc' = "cells"
                         /\ yearEvents' = started
  /\ UNCHANGED <<revision, MAX_GRID_CELLS, boundaries, credentials, cellIdx,
                 totalPixels, greenPixels, analyzedCells, gridResults, cellLog>>
  /\ UNCHANGED <<chanVars, callVars, restVars>>

\* one iteration of the cell loop, and the tail of the function after the last
CellStep ==
  /\ ypc = "cells"
  /\ cellIdx < Len(grid)
  /\ \E resp \in Responses(revision), est \in Estimates(revision) :
       LET cell == grid[cellIdx + 1]
           c == analyzeGridCell(revision, cell, credentials, resp, est)
           last == cellIdx + 1 = Len(grid)
           done == IF last THEN <<"year-completed">> ELSE <<>>
           progress == ~c.threw /\ EmitsProgress(revision, analyzedCells + 1, Len(grid))
       IN /\ cellLog' = Append(cellLog, [outcome |-> CellOutcome(c), source |-> c.source,
                                         response |-> resp.kind, progress |-> progress])
          /\ IF c.threw
               THEN IF CellCaught(revision)
                      THEN /\ ypc' = IF last THEN "returned" ELSE "cells"
                           /\ yearEvents' = yearEvents \o done
                           /\ cellIdx' = cellIdx + 1
                           /\ UNCHANGED <<totalPixels, greenPixels, analyzedCells,
                                          gridResults>>
                      ELSE /\ ypc' = "thrown"
                           /\ yearEvents' = Append(yearEvents, "error")
                           /\ UNCHANGED <<cellIdx, totalPixels, greenPixels,
                                          analyzedCells, gridResults>>
               ELSE /\ totalPixels' = totalPixels + c.totalPixels
                    /\ greenPixels' = greenPixels + c.greenPixels
                    /\ analyzedCells' = analyzedCells + 1
                    /\ gridResults' = Append(gridResults,
                         [vegetationPercentage |-> Percentage(c.greenPixels, c.totalPixels),
                          source |-> c.source])
                    /\ yearEvents' = yearEvents
                         \o (IF progress THEN <<"grid-progress">> ELSE <<>>)
                         \o done
                    /\ cellIdx' = cellIdx + 1
                    /\ ypc' = IF last THEN "returned" ELSE "cells"
  /\ UNCHANGED <<revision, MAX_GRID_CELLS, boundaries, credentials, grid, filteredCells>>
  /\ UNCHANGED <<chanVars, callVars, restVars>>

\* the grid part alone: createAnalysisGrid and the cap
BuildGrid ==
  /\ ypc = "grid"
  /\ boundaries.kind # "missing"
  /\ filteredCells' = FilteredGrid(revision, boundaries, MAX_GRID_CELLS)
  /\ grid' = LimitGrid(revision, filteredCells', MAX_GRID_CELLS)
  /\ ypc' = "built"
  /\ UNCHANGED <<revision, MAX_GRID_CELLS, boundaries, credentials, cellIdx,
                 totalPixels, greenPixels, analyzedCells, gridResults, cellLog,
                 yearEvents>>
  /\ UNCHANGED <<chanVars, callVars, restVars>>

\* the result record of analyzeGreenpaceForYear
ResultPercentage == Percentage(greenPixels, totalPixels)
ResultConfidence == Confidence(analyzedCells, Len(grid))

YearCounters ==
  /\ grid = <<>> /\ filteredCells = <<>> /\ cellIdx = 0
  /\ totalPixels = 0 /\ greenPixels = 0 /\ analyzedCells = 0
  /\ gridResults = <<>> /\ cellLog = <<>> /\ yearEvents = <<>>

\* the boundaries the year analysis is run on
YearBoundaries ==
  LET P(n) == CHOOSE p \in Places : p.name = n
  IN { MissingBoundary,
       Boundary("polygon", P("equator"), 0, 100, "box", "none"),
       Boundary("polygon", P("toronto"), 100, 100, "box", "none"),
       Boundary("polygon", P("equator"), 1500, 1500, "box", "none"),
       Boundary("polygon", P("amazon"), 500, 100, "triangle", "odd") }

\* no session, no subscriber: the year analysis is run on its own
\* no caller of getSentinelAccessToken, an empty cache
TokenOff ==
  /\ sentinelAccessToken = 0 /\ tokenExpiry = 0 /\ now = 0
  /\ callers = <<>> /\ issued = 0

\* no page is open
ClientOff == ui = <<>> /\ effect = 0 /\ runs = <<>>

RestOff == TokenOff /\ ClientOff

\* no function is called on its own
CallOff == args = <<>> /\ result = <<>>

ChannelOff ==
  /\ session = <<>> /\ published = <<>> /\ subs = <<>>
  /\ listeners = <<>> /\ faulty = <<>>

InitYear ==
  /\ ChannelOff /\ CallOff /\ RestOff
  /\ revision \in Revisions
  /\ MAX_GRID_CELLS \in 1..MaxBudget
  /\ boundaries \in YearBoundaries
  /\ credentials \in BOOLEAN
  /\ ypc = "init"
  /\ YearCounters

NextYear == YearStart \/ CellStep

SpecYear == InitYear /\ [][NextYear]_vars

InitGrid ==
  /\ ChannelOff /\ CallOff /\ RestOff
  /\ revision \in Revisions
  /\ MAX_GRID_CELLS \in 1..MaxBudget
  /\ boundaries \in AllBoundaries
  /\ credentials = TRUE
  /\ ypc = "grid"
  /\ YearCounters

SpecGrid == InitGrid /\ [][BuildGrid]_vars

\* ------------------------------------------------------------------
\* Sessions and the progress channel: server.js, the shared emitter
\* ------------------------------------------------------------------

Sessions == {"s1", "s2"}

Subscribers == {"u1", "u2"}

\* new Date().getFullYear() on the day of the run
CurrentYear == 2026

ProgressTypes ==
  {"analysis-started", "log", "grid-started", "grid-progress", "year-completed",
   "historical-started", "historical-year-started", "historical-completed",
   "error"}

TerminalTypes == {"analysis-completed", "analysis-error"}

\* the payload every emission carries: { sessionId, type, data }
Evt(s, type) == [sessionId |-> s, type |-> type]

\* the first bytes of every stream: data: {"type":"connected", sessionId}
Connected(s) == Evt(s, "connected")

NoSub == [state |-> "none", session |-> "none", stream |-> <<>>,
          ended |-> FALSE, lateWrite |-> FALSE]

\* a subscriber's callback raises while it handles an event of its session
Raises(u, sub, evt) == sub.session = evt.sessionId /\ faulty[u] = evt.type

\* completeHandler and errorHandler leaving the response open
HandlerNeverEnds(sub, chan, evt) ==
  [sub EXCEPT !.stream = IF sub.ended THEN @ ELSE Append(@, evt),
              !.lateWrite = @ \/ sub.ended]

\* res.write then, on the complete and error channels, res.end(); what is
\* written after end() is not sent
HandlerWrites(sub, chan, evt) ==
  [sub EXCEPT !.stream = IF sub.ended THEN @ ELSE Append(@, evt),
              !.lateWrite = @ \/ sub.ended,
              !.ended = @ \/ chan \in {"complete", "error"}]

\* a handler that forwards every event, whatever its session
HandlerUnfiltered(sub, chan, evt) == HandlerWrites(sub, chan, evt)

\* progressHandler, completeHandler, errorHandler: one per channel, each
\* guarded by data.sessionId === sessionId
Handler(sub, chan, evt) ==
  IF evt.sessionId = sub.session THEN HandlerWrites(sub, chan, evt) ELSE sub

\* EventEmitter.emit: the listeners run synchronously in registration
\* order; one that raises stops the delivery and the exception leaves emit
RECURSIVE DeliverFrom(_, _, _, _)
DeliverFrom(ss, k, chan, evt) ==
  IF k > Len(listeners) THEN [subs |-> ss, threw |-> FALSE]
  ELSE LET u == listeners[k] IN
       IF Raises(u, ss[u], evt) THEN [subs |-> ss, threw |-> TRUE]
       ELSE DeliverFrom([ss EXCEPT ![u] = Handler(@, chan, evt)], k + 1, chan, evt)

emit(ss, chan, evt) == DeliverFrom(ss, 1, chan, evt)

\* ---- the background task of one session, run up to its next suspension
\* A running task is [label, ses, subs, pub]: the statement it is at, the
\* session's locals, the subscribers' responses and the session's events.

NoRange == [startYear |-> 0, endYear |-> 0]

\* the year list of getHistoricalGreenspaceData: yearRange?.startYear || ...
RECURSIVE YearsFrom(_, _)
YearsFrom(year, endYear) ==
  IF year <= endYear THEN <<year>> \o YearsFrom(year + 2, endYear) ELSE <<>>

YearList(rev, range) ==
  IF rev = "B"
    THEN <<IF range.endYear # 0 THEN range.endYear ELSE CurrentYear - 1>>
    ELSE YearsFrom(IF range.startYear # 0 THEN range.startYear ELSE CurrentYear - 2,
                   IF range.endYear # 0 THEN range.endYear ELSE CurrentYear)

\* progressEmitter.emit(chan, {sessionId, type, data}) at one statement:
\* control goes to ok when emit returns and to bad when it raises
EmitThen(st, s, chan, type, ok, bad) ==
  LET r == emit(st.subs, chan, Evt(s, type))
  IN [st EXCEPT !.subs = r.subs,
                !.pub = Append(@, [chan |-> chan, type |-> type]),
                !.label = IF r.threw THEN bad ELSE ok]

Goto(st, l) == [st EXCEPT !.label = l]

SessionGrid(b) == LimitGrid(revision, FilteredGrid(revision, b, MAX_GRID_CELLS),
                            MAX_GRID_CELLS)

\* analyzeGreenpaceForYear with its cell loop and its catch
YearStep(st, s) ==
  LET ses == st.ses
      l == st.label
      thrown == IF ses.phase = "current" THEN "analysisCatch"
                ELSE IF revision = "B" THEN "histCatch" ELSE "histYearCatch"
  IN CASE l = "yearHead" ->
            IF ses.boundary.kind = "missing" THEN Goto(st, "yearCatch")
            ELSE [st EXCEPT !.ses.len = Len(SessionGrid(ses.boundary)),
                            !.ses.cell = 0, !.ses.analyzed = 0,
                            !.label = IF revision = "B" THEN "cellLoop"
                                      ELSE "gridStarted"]
       [] l = "gridStarted" ->
            EmitThen(st, s, "progress", "grid-started", "cellLoop", "yearCatch")
       [] l = "cellLoop" ->
            Goto(st, IF ses.cell < ses.len THEN "cellWait" ELSE "yearCompleted")
       [] l = "cellOk" ->
            [st EXCEPT !.ses.cell = @ + 1, !.ses.analyzed = @ + 1,
                       !.label = IF EmitsProgress(revision, ses.analyzed + 1, ses.len)
                                   THEN "gridProgress" ELSE "cellLoop"]
       [] l = "cellThrew" ->
            IF CellCaught(revision)
              THEN [st EXCEPT !.ses.cell = @ + 1, !.label = "cellLoop"]
              ELSE Goto(st, "yearCatch")
       [] l = "gridProgress" ->
            EmitThen(st, s, "progress", "grid-progress", "cellLoop",
                     IF CellCaught(revision) THEN "cellLoop" ELSE "yearCatch")
       [] l = "yearCompleted" ->
            EmitThen(st, s, "progress", "year-completed",
                     IF ses.phase = "current" THEN "log3" ELSE "histPush",
                     "yearCatch")
       [] l = "yearCatch" ->
            EmitThen([st EXCEPT !.ses.failed =
                        IF ses.phase = "historical" THEN @ \cup {Head(ses.years)} ELSE @],
                     s, "progress", "error", thrown, thrown)

\* historicalData.sort((a, b) => a.year - b.year), as an insertion sort
RECURSIVE InsertYear(_, _, _)
InsertYear(sorted, year, descending) ==
  IF sorted = <<>> THEN <<year>>
  ELSE IF (IF descending THEN year >= Head(sorted) ELSE year <= Head(sorted))
         THEN <<year>> \o sorted
         ELSE <<Head(sorted)>> \o InsertYear(Tail(sorted), year, descending)

RECURSIVE SortBy(_, _)
SortBy(data, descending) ==
  IF data = <<>> THEN <<>>
  ELSE InsertYear(SortBy(Tail(data), descending), Head(data), descending)

\* the comparator turned round: b.year - a.year
SortYearsDescending(historicalData) == SortBy(historicalData, TRUE)

SortYears(historicalData) == SortBy(historicalData, FALSE)

\* getHistoricalGreenspaceData: the year loop, the per-year catch of A and
\* C, and the outer catch (returns [] in A and C, rethrows in B)
HistoricalStep(st, s) ==
  LET ses == st.ses
      l == st.label
  IN CASE l = "histHead" ->
            [st EXCEPT !.ses.years = YearList(revision, ses.range),
                       !.ses.hist = <<>>, !.ses.phase = "historical",
                       !.label = "histStarted"]
       [] l = "histStarted" ->
            EmitThen(st, s, "progress", "historical-started", "histLoop", "histCatch")
       [] l = "histLoop" ->
            IF ses.years = <<>>
              THEN [st EXCEPT !.ses.hist = SortYears(@), !.label = "histCompleted"]
              ELSE Goto(st, "histYearStarted")
       [] l = "histYearStarted" ->
            EmitThen(st, s, "progress", "historical-year-started", "yearHead",
                     IF revision = "B" THEN "histCatch" ELSE "histYearCatch")
       [] l = "histPush" ->
            [st EXCEPT !.ses.hist = Append(@, Head(ses.years)),
                       !.ses.years = Tail(@), !.label = "histLoop"]
       [] l = "histYearCatch" ->
            LET r == EmitThen(st, s, "progress", "log", "histLoop", "histCatch")
            IN IF r.label = "histLoop" THEN [r EXCEPT !.ses.years = Tail(@)] ELSE r
       [] l = "histCompleted" ->
            EmitThen(st, s, "progress", "historical-completed", "log4", "histCatch")
       [] l = "histCatch" ->
            IF revision = "B"
              THEN EmitThen(st, s, "progress", "error", "analysisCatch", "analysisCatch")
              ELSE LET r == EmitThen(st, s, "progress", "error", "log4", "analysisCatch")
                   IN IF r.label = "log4" THEN [r EXCEPT !.ses.hist = <<>>] ELSE r

\* an analyzeGreenspace whose catch swallows the failure and returns
AnalysisStepSwallows(st, s) ==
  LET l == st.label
      next == IF l = "log1" THEN "log2" ELSE IF l = "log2" THEN "yearHead"
              ELSE IF l = "log3" THEN "histHead" ELSE IF l = "log4" THEN "log5"
              ELSE "complete"
  IN IF l = "analysisCatch"
       THEN EmitThen(st, s, "progress", "error", "complete", "complete")
       ELSE EmitThen(st, s, "progress", "log", next, "analysisCatch")

\* analyzeGreenspace: its log events and its catch, which emits a progress
\* event of type error and throws again
AnalysisStep(st, s) ==
  LET l == st.label
  IN CASE l = "log1" -> EmitThen(st, s, "progress", "log", "log2", "analysisCatch")
       [] l = "log2" -> EmitThen(st, s, "progress", "log", "yearHead", "analysisCatch")
       [] l = "log3" -> EmitThen(st, s, "progress", "log", "histHead", "analysisCatch")
       [] l = "log4" -> EmitThen(st, s, "progress", "log", "log5", "analysisCatch")
       [] l = "log5" -> EmitThen(st, s, "progress", "log", "complete", "analysisCatch")
       [] l = "analysisCatch" ->
            EmitThen(st, s, "progress", "error", "serverCatch", "serverCatch")

\* a background task whose catch reports nothing
ServerStepSilent(st, s) ==
  IF st.label = "started"
    THEN EmitThen(st, s, "progress", "analysis-started", "log1", "serverCatch")
  ELSE IF st.label = "complete"
    THEN [EmitThen(st, s, "complete", "analysis-completed", "done", "done")
            EXCEPT !.ses.outcome = "completed"]
  ELSE [st EXCEPT !.ses.outcome = "error", !.label = "done"]

\* the setImmediate callback of POST /api/analyze-greenspace
ServerStep(st, s) ==
  LET l == st.label
      ended(r, o) == [r EXCEPT !.ses.outcome = o, !.label = "done"]
  IN CASE l = "started" ->
            EmitThen(st, s, "progress", "analysis-started", "log1", "serverCatch")
       [] l = "complete" ->
            LET r == EmitThen(st, s, "complete", "analysis-completed", "done",
                              "serverCatch")
            IN IF r.label = "done" THEN ended(r, "completed") ELSE r
       [] l = "serverCatch" ->
            ended(EmitThen(st, s, "error", "analysis-error", "done", "done"), "error")

YearLabels == {"yearHead", "gridStarted", "cellLoop", "cellOk", "cellThrew",
               "gridProgress", "yearCompleted", "yearCatch"}

HistoricalLabels == {"histHead", "histStarted", "histLoop", "histYearStarted",
                     "histPush", "histYearCatch", "histCompleted", "histCatch"}

AnalysisLabels == {"log1", "log2", "log3", "log4", "log5", "analysisCatch"}

Step(st, s) ==
  IF st.label \in YearLabels THEN YearStep(st, s)
  ELSE IF st.label \in HistoricalLabels THEN HistoricalStep(st, s)
  ELSE IF st.label \in AnalysisLabels THEN AnalysisStep(st, s)
  ELSE ServerStep(st, s)

\* JavaScript runs a task to completion: up to the next await on the
\* satellite source, or to the end of the callback
RECURSIVE Run(_, _)
Run(st, s) == IF st.label \in {"cellWait", "done"} THEN st ELSE Run(Step(st, s), s)


\* ---- requests, subscriptions and the steps of the background tasks

SessionBoundaries(s) ==
  LET P(n) == CHOOSE p \in Places : p.name = n
      empty == Boundary("polygon", P("equator"), 0, 100, "box", "none")
  IN IF s = "s1"
       THEN {MissingBoundary, empty,
             Boundary("polygon", P("toronto"), 100, 100, "box", "none")}
       ELSE {empty}

\* the range a request carries: the client's default {cy - 1, cy}, or none
YearRanges(s) ==
  IF s = "s1" THEN {NoRange, [startYear |-> CurrentYear - 1, endYear |-> CurrentYear]}
  ELSE {NoRange}

\* the sessions a client opens its EventSource on
Audience(u) == IF u = "u1" THEN {"s1"} ELSE Sessions

IdleSession ==
  [pc |-> "idle", boundary |-> MissingBoundary, range |-> NoRange,
   phase |-> "none", cell |-> 0, len |-> 0, analyzed |-> 0,
   years |-> <<>>, hist |-> <<>>, failed |-> {}, outcome |-> "none"]

\* POST /api/analyze-greenspace: 404 for an unknown city, else the session
\* id is returned and the analysis is scheduled with setImmediate
Post(s) ==
  /\ session[s].pc = "idle"
  /\ \/ session' = [session EXCEPT ![s].pc = "rejected"]
     \/ \E b \in SessionBoundaries(s), r \in YearRanges(s) :
          session' = [session EXCEPT ![s] = [IdleSession EXCEPT !.pc = "scheduled",
                                                               !.boundary = b,
                                                               !.range = r]]
  /\ UNCHANGED <<published, subs, listeners, faulty, yearVars, callVars, restVars>>

Install(st, s) ==
  /\ session' = [session EXCEPT ![s] =
                   [st.ses EXCEPT !.pc = IF st.label = "done" THEN "done" ELSE "cell"]]
  /\ subs' = st.subs
  /\ published' = [published EXCEPT ![s] = st.pub]
  /\ UNCHANGED <<listeners, faulty, yearVars, callVars, restVars>>

Task(s, l) ==
  [label |-> l, ses |-> session[s], subs |-> subs, pub |-> published[s]]

\* the setImmediate callback starts: everything up to the first request
\* for satellite data, or to the end when no cell is requested
TaskStart(s) ==
  /\ session[s].pc = "scheduled"
  /\ Install(Run([Task(s, "started") EXCEPT !.ses.phase = "current"], s), s)

\* whether the retrieval for the cell the task waits on can raise
CellThrows(s) ==
  LET cell == SessionGrid(session[s].boundary)[session[s].cell + 1]
  IN { analyzeGridCell(revision, cell, credentials, r, e).threw :
         r \in Responses(revision), e \in Estimates(revision) }

\* the awaited cell analysis settles and the task runs on
SessionCell(s) ==
  /\ session[s].pc = "cell"
  /\ \E threw \in CellThrows(s) :
       Install(Run(Task(s, IF threw THEN "cellThrew" ELSE "cellOk"), s), s)

\* GET /api/analysis-progress/:sessionId: writes connected, registers the
\* three handlers
Subscribe(u, s) ==
  /\ subs[u].state = "none"
  /\ s \in Audience(u)
  /\ session[s].pc \notin {"idle", "rejected"}
  /\ subs' = [subs EXCEPT ![u] = [NoSub EXCEPT !.state = "open", !.session = s,
                                               !.stream = <<Connected(s)>>]]
  /\ listeners' = Append(listeners, u)
  /\ UNCHANGED <<session, published, faulty, yearVars, callVars, restVars>>

\* req.on('close'): the three handlers are removed
Disconnect(u) ==
  /\ subs[u].state = "open"
  /\ subs' = [subs EXCEPT ![u].state = "closed"]
  /\ listeners' = SelectSeq(listeners, LAMBDA v : v # u)
  /\ UNCHANGED <<session, published, faulty, yearVars, callVars, restVars>>

SessionYearOff ==
  /\ boundaries = MissingBoundary
  /\ ypc = "off"
  /\ YearCounters

InitChannel ==
  /\ revision \in Revisions
  /\ MAX_GRID_CELLS = 1
  /\ credentials = TRUE
  /\ SessionYearOff /\ CallOff /\ RestOff
  /\ session = [s \in Sessions |-> IdleSession]
  /\ published = [s \in Sessions |-> <<>>]
  /\ subs = [u \in Subscribers |-> NoSub]
  /\ listeners = <<>>

Init == InitChannel /\ faulty = [u \in Subscribers |-> "never"]

Next ==
  \/ \E s \in Sessions : Post(s)
  \/ \E s \in Sessions : TaskStart(s)
  \/ \E s \in Sessions : SessionCell(s)
  \/ \E u \in Subscribers, s \in Sessions : Subscribe(u, s)
  \/ \E u \in Subscribers : Disconnect(u)

Spec == Init /\ [][Next]_vars


\* ---- a subscriber whose callback raises on one type of event

FaultTypes == {"log", "grid-progress", "year-completed", "analysis-completed"}

InitFault ==
  /\ InitChannel
  /\ faulty \in {f \in [Subscribers -> FaultTypes \cup {"never"}] : f["u1"] = "never"}

SpecFault == InitFault /\ [][Next]_vars

\* ---- what the streams and the event logs show

Terminals(s) == SelectSeq(published[s], LAMBDA e : e.chan \in {"complete", "error"})

TypesOf(events) == [i \in 1..Len(events) |-> events[i].type]

\* the events a subscriber was sent after connected
Received(u) == TypesOf(Tail(subs[u].stream))

IsSuffix(a, b) == Len(a) <= Len(b) /\ SubSeq(b, Len(b) - Len(a) + 1, Len(b)) = a

HasTerminal(u) == \E i \in 1..Len(subs[u].stream) : subs[u].stream[i].type \in TerminalTypes

\* the outcome of an analysis that no subscriber disturbs
NormalOutcome(s) ==
  IF session[s].boundary.kind = "missing" THEN "error" ELSE "completed"


\* ---- one request with a caller-supplied year range, no subscriber

\* yearRange of the request body; 0 stands for an absent (falsy) bound
CallerRanges ==
  [startYear : {0, 2020, 2023, CurrentYear}, endYear : {0, 2024, CurrentYear}]

HistoryBoundaries == SessionBoundaries("s1") \ {MissingBoundary}

\* POST /api/analyze-greenspace with { city, yearRange } of a known city
Request(s) ==
  /\ session[s].pc = "idle"
  /\ \E b \in HistoryBoundaries, r \in CallerRanges :
       session' = [session EXCEPT ![s] = [IdleSession EXCEPT !.pc = "scheduled",
                                                            !.boundary = b,
                                                            !.range = r]]
  /\ UNCHANGED <<published, subs, listeners, faulty, yearVars, callVars, restVars>>

NextHistory == Request("s1") \/ TaskStart("s1") \/ SessionCell("s1")

SpecHistory == Init /\ [][NextHistory]_vars

\* the years s, s + 2, s + 4, ... up to e
StrideYears(startYear, endYear) ==
  [i \in 1..((endYear - startYear) \div 2 + 1) |-> startYear + 2 * (i - 1)]

StrictlyAscending(years) == \A i \in 1..(Len(years) - 1) : years[i] < years[i + 1]

PublishedTypes(s) == {published[s][i].type : i \in 1..Len(published[s])}


\* ---- calculateGreenpaceScore, called on its own
\* Percentages are in hundredths of a percent, scores in ten-thousandths
\* of a point, so that (percentage - 15) * 1.33 is exact.

Breakpoints == {500, 1500, 3000, 5000}

\* the percentages tried: every 2.5 percent, and 0.01 around each breakpoint
\* and around 75, where Math.min(100, ...) sets in
Percentages ==
  {p \in 0..10000 :
     \/ p % 250 = 0
     \/ \E b \in Breakpoints \cup {7500} : p \in (b - 1)..(b + 1)}

\* a 15..30 branch whose slope is 1.34
ScoreBranchSteep(branch, percentage) ==
  IF branch = 4 THEN Min(1000000, 800000 + (percentage - 5000) * 80)
  ELSE IF branch = 3 THEN 600000 + (percentage - 3000) * 100
  ELSE IF branch = 2 THEN 400000 + (percentage - 1500) * 134
  ELSE IF branch = 1 THEN 200000 + (percentage - 500) * 200
  ELSE percentage * 400

\* the five return statements, numbered from the last one (0) to the first
ScoreBranch(branch, percentage) ==
  IF branch = 4 THEN Min(1000000, 800000 + (percentage - 5000) * 80)
  ELSE IF branch = 3 THEN 600000 + (percentage - 3000) * 100
  ELSE IF branch = 2 THEN 400000 + (percentage - 1500) * 133
  ELSE IF branch = 1 THEN 200000 + (percentage - 500) * 200
  ELSE percentage * 400

\* the chain of if (percentage >= ...) return
BranchOf(percentage) ==
  IF percentage >= 5000 THEN 4
  ELSE IF percentage >= 3000 THEN 3
  ELSE IF percentage >= 1500 THEN 2
  ELSE IF percentage >= 500 THEN 1
  ELSE 0

calculateGreenpaceScore(percentage) == ScoreBranch(BranchOf(percentage), percentage)

\* the branch below the one that applies, evaluated at the same percentage
ScoreFromBelow(percentage) == ScoreBranch(Max(0, BranchOf(percentage) - 1), percentage)

InitScore ==
  /\ revision \in Revisions
  /\ MAX_GRID_CELLS = 1 /\ credentials = TRUE
  /\ SessionYearOff /\ ChannelOff /\ RestOff
  /\ args \in [p : Percentages, q : Percentages]
  /\ result = <<>>

\* const score = calculateGreenpaceScore(currentCoverage.percentage), for
\* two coverages
ScoreCall ==
  /\ result = <<>>
  /\ result' = [p |-> calculateGreenpaceScore(args.p),
                q |-> calculateGreenpaceScore(args.q),
                below |-> ScoreFromBelow(args.p)]
  /\ UNCHANGED <<args, yearVars, chanVars, restVars>>

SpecScore == InitScore /\ [][ScoreCall]_vars


\* ---- getVegetationThreshold, called on its own

\* the rule boxes of part_000: tropical rainforest, and arid (Arabian
\* Peninsula, Sahara, Australian Outback, US Southwest)
TropicalRainforestBox(lat2, lon2) ==
  \/ InBox(lat2, lon2, -150, 50, -750, -450)
  \/ InBox(lat2, lon2, -100, 200, 900, 1400)
  \/ InBox(lat2, lon2, -250, -100, -1600, -1400)

AridBox(lat2, lon2) ==
  \/ InBox(lat2, lon2, 150, 350, 250, 550)
  \/ InBox(lat2, lon2, 150, 350, -100, 250)
  \/ InBox(lat2, lon2, -350, -200, 1100, 1550)
  \/ InBox(lat2, lon2, 250, 450, -1200, -1000)

\* centroids, in tenths of a degree
CentroidLats == {-300, -220, -120, 0, 100, 170, 220, 300, 400, 437, 520}
CentroidLons == {-1500, -1100, -793, -600, 0, 400, 1000, 1300}

\* a cell of 0.001 degree around a centroid
CellAround(lat, lon) ==
  <<lon * 6400 - 32, lat * 6400 - 32, lon * 6400 + 32, lat * 6400 + 32>>

InitThreshold ==
  /\ revision \in Revisions
  /\ MAX_GRID_CELLS = 1 /\ credentials = TRUE
  /\ SessionYearOff /\ ChannelOff /\ RestOff
  /\ \E lat \in CentroidLats, lon \in CentroidLons :
       args = [cellBounds |-> CellAround(lat, lon)]
  /\ result = <<>>

\* const ndviThreshold = getVegetationThreshold(cellBounds)
ThresholdCall ==
  /\ result = <<>>
  /\ result' = [threshold |-> getVegetationThreshold(revision, args.cellBounds)]
  /\ UNCHANGED <<args, yearVars, chanVars, restVars>>

SpecThreshold == InitThreshold /\ [][ThresholdCall]_vars


\* ---- getSentinelAccessToken: the process-wide token cache
\* Time is in ms. Token 0 and expiry 0 stand for null.

Callers == {"c1", "c2"}

\* the tokens the server grants in a run, and the ticks of the clock
MaxTokens == 3
MaxTicks == 4

TickMs == 1000

\* expires_in of the token response, in seconds
ExpiresIn == {1, 2}

IdleCaller == [pc |-> "idle", got |-> 0]

\* if (sentinelAccessToken && tokenExpiry && Date.now() < tokenExpiry)
CachedTokenValid ==
  sentinelAccessToken # 0 /\ tokenExpiry # 0 /\ now < tokenExpiry

InitToken ==
  /\ revision \in {"A", "B"}
  /\ MAX_GRID_CELLS = 1 /\ credentials = TRUE
  /\ SessionYearOff /\ ChannelOff /\ CallOff /\ ClientOff
  /\ sentinelAccessToken = 0 /\ tokenExpiry = 0 /\ now = 0 /\ issued = 0
  /\ callers = [c \in Callers |-> IdleCaller]

\* a call: the cached token when it is valid, else the request is sent and
\* the caller waits on axios.post
TokenCall(c) ==
  /\ callers[c].pc # "requesting"
  /\ callers' = [callers EXCEPT ![c] =
                   IF CachedTokenValid
                     THEN [pc |-> "returned", got |-> sentinelAccessToken]
                     ELSE [pc |-> "requesting", got |-> 0]]
  /\ UNCHANGED <<sentinelAccessToken, tokenExpiry, now, issued>>
  /\ UNCHANGED <<yearVars, chanVars, callVars, clientVars>>

\* the token response arrives: the cache is written and the token returned
TokenGranted(c) ==
  /\ callers[c].pc = "requesting"
  /\ issued < MaxTokens
  /\ \E expires_in \in ExpiresIn :
       /\ sentinelAccessToken' = issued + 1
       /\ tokenExpiry' = now + expires_in * 900
  /\ issued' = issued + 1
  /\ callers' = [callers EXCEPT ![c] = [pc |-> "returned", got |-> issued + 1]]
  /\ UNCHANGED now
  /\ UNCHANGED <<yearVars, chanVars, callVars, clientVars>>

\* a catch that drops the cache
CacheClearedOnFailure(token, expiry) == [token |-> 0, expiry |-> 0]

\* the catch of getSentinelAccessToken assigns nothing
CacheAfterFailure(token, expiry) == [token |-> token, expiry |-> expiry]

\* the request fails: 'OAuth authentication failed' is thrown
TokenRefused(c) ==
  /\ callers[c].pc = "requesting"
  /\ callers' = [callers EXCEPT ![c] = [pc |-> "failed", got |-> 0]]
  /\ sentinelAccessToken' = CacheAfterFailure(sentinelAccessToken, tokenExpiry).token
  /\ tokenExpiry' = CacheAfterFailure(sentinelAccessToken, tokenExpiry).expiry
  /\ UNCHANGED <<now, issued>>
  /\ UNCHANGED <<yearVars, chanVars, callVars, clientVars>>

Tick ==
  /\ now < MaxTicks * TickMs
  /\ now' = now + TickMs
  /\ UNCHANGED <<sentinelAccessToken, tokenExpiry, callers, issued>>
  /\ UNCHANGED <<yearVars, chanVars, callVars, clientVars>>

NextToken ==
  \/ \E c \in Callers : TokenCall(c)
  \/ \E c \in Callers : TokenGranted(c)
  \/ \E c \in Callers : TokenRefused(c)
  \/ Tick

SpecToken == InitToken /\ [][NextToken]_vars


\* ---- the time window of callSentinelAPI, computed on its own
\* A date is the [year, month, day] its ISO string names.

LatestDataYear == 2024

RequestedYears == 2015..(CurrentYear + 1)
CalendarMonths == 1..12

\* const dataYear = year >= 2025 ? 2024 : Math.min(year, 2024)
DataYear(year) ==
  IF year >= LatestDataYear + 1 THEN LatestDataYear ELSE Min(year, LatestDataYear)

\* revision A: the if chain on currentMonth; the winter window names
\* December and February of the same year
SeasonWindow(currentMonth) ==
  IF currentMonth >= 6 /\ currentMonth <= 8 THEN [startMonth |-> 6, endMonth |-> 8]
  ELSE IF currentMonth >= 9 /\ currentMonth <= 11 THEN [startMonth |-> 9, endMonth |-> 11]
  ELSE IF currentMonth >= 12 \/ currentMonth <= 2 THEN [startMonth |-> 12, endMonth |-> 2]
  ELSE [startMonth |-> 3, endMonth |-> 5]

\* revision A: startDate = `${dataYear}-${startMonth}-01T00:00:00Z`,
\* endDate = `${dataYear}-${endMonth}-28T23:59:59Z`;
\* revision C: `${dataYear}-06-01T00:00:00Z` to `${dataYear}-08-31T23:59:59Z`
TimeRange(rev, year, currentMonth) ==
  LET w == SeasonWindow(currentMonth)
  IN IF rev = "A"
       THEN [from |-> [year |-> DataYear(year), month |-> w.startMonth, day |-> 1],
             to |-> [year |-> DataYear(year), month |-> w.endMonth, day |-> 28]]
       ELSE [from |-> [year |-> DataYear(year), month |-> 6, day |-> 1],
             to |-> [year |-> DataYear(year), month |-> 8, day |-> 31]]

\* the order of two dates
DateBefore(a, b) ==
  \/ a.year < b.year
  \/ a.year = b.year /\ a.month < b.month
  \/ a.year = b.year /\ a.month = b.month /\ a.day < b.day

InitWindow ==
  /\ revision \in {"A", "C"}
  /\ MAX_GRID_CELLS = 1 /\ credentials = TRUE
  /\ SessionYearOff /\ ChannelOff /\ RestOff
  /\ args \in [year : RequestedYears, currentMonth : CalendarMonths]
  /\ result = <<>>

WindowCall ==
  /\ result = <<>>
  /\ result' = TimeRange(revision, args.year, args.currentMonth)
  /\ UNCHANGED <<args, yearVars, chanVars, restVars>>

SpecWindow == InitWindow /\ [][WindowCall]_vars


\* ---- the web client: App.jsx
\* An analysis is named by the number of the handleCitySelect call that
\* started it; 0 stands for null. Its session and its EventSource carry the
\* same number.

MaxAnalyses == 2

\* useState(null) / useState(false)
FreshUi == [selectedCity |-> 0, loading |-> FALSE, error |-> 0,
            analysisData |-> 0, progressData |-> 0, eventSource |-> 0]

\* a call of handleCitySelect: pc is posting, streaming or done; source is
\* the readyState of its EventSource; stream is how far the server is
NewRun == [pc |-> "posting", source |-> "none", stream |-> "new", interval |-> FALSE]

\* the types onmessage distinguishes: connected, the two terminal ones,
\* and any other (progress)
MessageTypes == {"connected", "grid-progress", "analysis-completed", "analysis-error"}

\* useEffect(() => () => { if (eventSource) eventSource.close() }, [eventSource]):
\* when a render sees another eventSource, the cleanup of the previous
\* effect closes the previous one
CleanupCloses(rs, previous, current) ==
  IF previous # current /\ previous # 0 /\ rs[previous].source = "open"
    THEN [rs EXCEPT ![previous].source = "closed"]
    ELSE rs

\* the render that follows a handler's updates
Render(u, rs) ==
  /\ ui' = u
  /\ runs' = CleanupCloses(rs, effect, u.eventSource)
  /\ effect' = u.eventSource

\* handleCitySelect up to await axios.post
handleCitySelect ==
  /\ Len(runs) < MaxAnalyses
  /\ Render([ui EXCEPT !.selectedCity = Len(runs) + 1, !.loading = TRUE, !.error = 0,
                       !.analysisData = 0, !.progressData = 0],
            Append(runs, NewRun))
  /\ UNCHANGED <<yearVars, chanVars, callVars, tokenVars>>

\* the POST answers with the session id: new EventSource, setEventSource
PostResolved(k) ==
  /\ runs[k].pc = "posting"
  /\ Render([ui EXCEPT !.eventSource = k],
            [runs EXCEPT ![k].pc = "streaming", ![k].source = "open"])
  /\ UNCHANGED <<yearVars, chanVars, callVars, tokenVars>>

\* the POST fails: the catch of handleCitySelect
PostRejected(k) ==
  /\ runs[k].pc = "posting"
  /\ Render([ui EXCEPT !.error = k, !.loading = FALSE],
            [runs EXCEPT ![k].pc = "done"])
  /\ UNCHANGED <<yearVars, chanVars, callVars, tokenVars>>

\* source.onmessage, for an event of the stream of analysis k
onmessage(k, type) ==
  /\ runs[k].source = "open"
  /\ (type = "connected") = (runs[k].stream = "new")
  /\ IF type = "connected"
       THEN Render(ui, [runs EXCEPT ![k].stream = "connected", ![k].interval = TRUE])
     ELSE IF type = "analysis-completed"
       THEN Render([ui EXCEPT !.analysisData = k, !.loading = FALSE, !.eventSource = 0],
                   [runs EXCEPT ![k].source = "closed", ![k].stream = "ended",
                                ![k].pc = "done", ![k].interval = FALSE])
     ELSE IF type = "analysis-error"
       THEN Render([ui EXCEPT !.error = k, !.loading = FALSE, !.eventSource = 0],
                   [runs EXCEPT ![k].source = "closed", ![k].stream = "ended",
                                ![k].pc = "done", ![k].interval = FALSE])
     ELSE Render([ui EXCEPT !.progressData = k], runs)
  /\ UNCHANGED <<yearVars, chanVars, callVars, tokenVars>>

\* source.onerror: the connection of analysis k is lost
onerror(k) ==
  /\ runs[k].source = "open"
  /\ Render([ui EXCEPT !.error = k, !.loading = FALSE, !.eventSource = 0],
            [runs EXCEPT ![k].source = "closed", ![k].pc = "done"])
  /\ UNCHANGED <<yearVars, chanVars, callVars, tokenVars>>

InitClient ==
  /\ revision = "B"
  /\ MAX_GRID_CELLS = 1 /\ credentials = TRUE
  /\ SessionYearOff /\ ChannelOff /\ CallOff /\ TokenOff
  /\ ui = FreshUi /\ effect = 0 /\ runs = <<>>

NextClient ==
  \/ handleCitySelect
  \/ \E k \in 1..Len(runs) : PostResolved(k)
  \/ \E k \in 1..Len(runs) : PostRejected(k)
  \/ \E k \in 1..Len(runs), type \in MessageTypes : onmessage(k, type)
  \/ \E k \in 1..Len(runs) : onerror(k)

SpecClient == InitClient /\ [][NextClient]_vars


\* ------------------------------------------------------------------ claims

\* C1: the grid the year analysis iterates over has at most MAX_GRID_CELLS
\* cells, whatever the boundary, the budget and the edge length.
C1_GridWithinBudget ==
  ypc \in {"built", "cells", "returned"} => Len(grid) <= MAX_GRID_CELLS

\* C1 witness: revision A, the resolution search stopped at its limit and
\* more cells than the budget passed the filter; the grid was cut to it.
C1_Witness ==
  /\ ypc = "built" /\ revision = "A"
  /\ GridEdge(revision, boundaries, MAX_GRID_CELLS) >= EdgeLimit
  /\ Len(filteredCells) > MAX_GRID_CELLS
  /\ Len(grid) = MAX_GRID_CELLS

\* C2: after any number of processed cells 0 <= greenPixels <= totalPixels,
\* the coverage percentage is within [0, 100] and is 0 without samples; the
\* same holds of every stored cell result.
C2_CoverageInRange ==
  /\ 0 <= greenPixels /\ greenPixels <= totalPixels
  /\ ResultPercentage >= 0 /\ ResultPercentage <= 10000
  /\ (totalPixels = 0 => ResultPercentage = 0)
  /\ \A k \in 1..Len(gridResults) :
       gridResults[k].vegetationPercentage \in 0..10000

\* C2 witness: a finished year with green and non-green samples in which one
\* cell failed or was served by estimated values.
C2_Witness ==
  /\ ypc = "returned"
  /\ 0 < greenPixels /\ greenPixels < totalPixels
  /\ \E k \in 1..Len(cellLog) : cellLog[k].outcome \in {"failed", "estimated"}

\* C3 (as claimed): for every grid the builder returns, confidence is a
\* number in [0, 1], and it is 1 exactly when no cell failed.
C3_ConfidenceInUnitRange ==
  ypc = "returned" =>
    /\ ~ResultConfidence.nan /\ ~ResultConfidence.inf
    /\ 0 <= ResultConfidence.num /\ ResultConfidence.num <= ResultConfidence.den
    /\ (ResultConfidence.num = ResultConfidence.den
          <=> \A k \in 1..Len(cellLog) : cellLog[k].outcome # "failed")

\* C10: revision A (failed cells are skipped), a non-empty grid and a real
\* source that fails for every cell: the year still returns, with confidence
\* 0, coverage 0 and no cell result.
C10_AllCellsFailed ==
  ( /\ revision = "A" /\ ypc \in {"returned", "thrown"}
    /\ Len(grid) > 0 /\ Len(cellLog) > 0
    /\ \A k \in 1..Len(cellLog) : cellLog[k].outcome = "failed" )
  => /\ ypc = "returned"
     /\ Len(cellLog) = Len(grid)
     /\ ResultConfidence = JSDiv(0, Len(grid))
     /\ ResultPercentage = 0
     /\ gridResults = <<>>

\* C10 witness: revision A returned from a grid of several cells all of which
\* failed.
C10_Witness ==
  /\ revision = "A" /\ ypc = "returned" /\ Len(grid) > 1
  /\ Len(cellLog) = Len(grid)
  /\ \A k \in 1..Len(cellLog) : cellLog[k].outcome = "failed"

\* C4: for every started session exactly one terminal event is published:
\* at most one at any time (never both kinds, never one kind twice), one
\* once the background analysis has ended, of the kind of its outcome.
C4_ExactlyOneTerminal ==
  \A s \in Sessions :
    /\ Len(Terminals(s)) <= 1
    /\ session[s].pc = "done" =>
         /\ Len(Terminals(s)) = 1
         /\ Terminals(s)[1].type = IF session[s].outcome = "completed"
                                     THEN "analysis-completed" ELSE "analysis-error"

C4_Witness ==
  /\ session["s1"].pc = "done" /\ session["s1"].outcome = "error"
  /\ session["s2"].pc = "done" /\ session["s2"].outcome = "completed"
  /\ Len(published["s1"]) > 1 /\ Len(published["s2"]) > 1

\* C5: whatever the interleaving of the sessions' publications on the
\* shared emitter, every event written to a subscriber's stream carries the
\* sessionId the subscriber asked for.
C5_OnlyOwnSession ==
  \A u \in Subscribers :
    \A i \in 1..Len(subs[u].stream) : subs[u].stream[i].sessionId = subs[u].session

\* u1 was registered on s1, before u2, and still is; u2 has since been sent
\* the whole run of s2, so every event of s2 went through u1's handlers
C5_Witness ==
  /\ listeners = <<"u1", "u2">>
  /\ subs["u1"].session = "s1" /\ subs["u2"].session = "s2"
  /\ Received("u2") = TypesOf(published["s2"]) /\ Len(published["s2"]) > 1
  /\ Len(subs["u1"].stream) > 1

\* C6: a stream that holds a terminal event is ended, the terminal event is
\* its last and only one, and nothing was written to it after its end.
C6_TerminalEndsStream ==
  \A u \in Subscribers :
    LET stream == subs[u].stream
    IN /\ ~subs[u].lateWrite
       /\ HasTerminal(u) =>
            /\ subs[u].ended
            /\ stream[Len(stream)].type \in TerminalTypes
            /\ \A i \in 1..(Len(stream) - 1) : stream[i].type \notin TerminalTypes
       /\ subs[u].ended => HasTerminal(u)

\* a stream ended by a terminal event whose handlers are still registered
\* while the other session publishes its whole run
C6_Witness ==
  /\ subs["u1"].ended /\ HasTerminal("u1") /\ subs["u1"].state = "open"
  /\ "u1" \in {listeners[i] : i \in 1..Len(listeners)}
  /\ session["s2"].pc = "done"

\* C7: when the background analysis of a session has failed, a client that
\* holds a subscription to the session has been sent analysis-error and its
\* stream is ended, whenever it opened the subscription.
C7_FailureReachesSubscriber ==
  \A u \in Subscribers :
    (subs[u].state = "open" /\ session[subs[u].session].pc = "done"
       /\ session[subs[u].session].outcome = "error")
    => /\ subs[u].ended
       /\ subs[u].stream[Len(subs[u].stream)].type = "analysis-error"

\* C8: a raising callback is isolated: every analysis ends with the outcome
\* it has without it, and a registered subscriber whose callback does not
\* raise has been sent every event published since it subscribed.
C8_FaultIsolated ==
  /\ \A s \in Sessions :
       session[s].pc = "done" => session[s].outcome = NormalOutcome(s)
  /\ \A u \in Subscribers :
       (subs[u].state = "open" /\ faulty[u] = "never" /\ ~subs[u].ended)
       => IsSuffix(Received(u), TypesOf(published[subs[u].session]))

\* C9: in revision B (real data only) every cell the year analysis has gone
\* through either made the year fail or was completed with samples of the
\* satellite source.
C9_FailClosedNoSubstitute ==
  revision = "B" =>
    \A i \in 1..Len(cellLog) :
      \/ cellLog[i].source = "real"
      \/ cellLog[i].outcome = "failed" /\ ypc = "thrown"

\* C11: a session whose current-year analysis failed has analysed no
\* historical year, has published no analysis-completed and ends with
\* analysis-error as its last event.
C11_CurrentYearFailureFatal ==
  \A s \in Sessions :
    (session[s].pc = "done" /\ session[s].phase = "current")
    => /\ session[s].outcome = "error"
       /\ session[s].hist = <<>> /\ session[s].failed = {}
       /\ PublishedTypes(s) \cap {"historical-started", "historical-year-started",
                                  "analysis-completed"} = {}
       /\ published[s][Len(published[s])].type = "analysis-error"

C11_Witness ==
  /\ session["s1"].pc = "done" /\ session["s1"].phase = "current"
  /\ "error" \in PublishedTypes("s1")
  /\ \E u \in Subscribers : subs[u].session = "s1" /\ HasTerminal(u)

C13_YearStride ==
  \A s \in Sessions :
    LET r == session[s].range
    IN (session[s].pc = "done" /\ session[s].outcome = "completed"
          /\ r.startYear # 0 /\ r.endYear # 0 /\ r.startYear <= r.endYear)
       => session[s].hist = StrideYears(r.startYear, r.endYear)

\* C14: the historical series of a finished analysis is strictly ascending
\* by year, whichever years failed.
C14_SeriesAscending ==
  \A s \in Sessions :
    session[s].pc = "done" => StrictlyAscending(session[s].hist)

\* a series of two years, and a series that lost a failed year
C14_Witness ==
  \E s \in Sessions :
    /\ session[s].pc = "done" /\ session[s].outcome = "completed"
    /\ session[s].failed # {} /\ Len(session[s].hist) >= 1

\* C15: no year is analysed twice in a run: the current year is not among
\* the historical years of a finished analysis.
C15_CurrentYearOnce ==
  \A s \in Sessions :
    session[s].pc = "done" =>
      \A i \in 1..Len(session[s].hist) : session[s].hist[i] # CurrentYear

\* C16: the score is non-decreasing on [0, 100]: for coverages p <= q the
\* score of p is at most the score of q, also across a breakpoint.
C16_ScoreMonotone ==
  (result # <<>> /\ args.p <= args.q) => result.p <= result.q

\* p just below the breakpoint 30, q on it
C16_Witness ==
  /\ result # <<>> /\ args.p = 2999 /\ args.q = 3000
  /\ result.p < result.q

\* C17: at each breakpoint 5, 15, 30, 50 the branch below the breakpoint,
\* evaluated at the breakpoint, gives the score the function returns there.
C17_ScoreContinuous ==
  (result # <<>> /\ args.p \in Breakpoints) => result.below = result.p

\* C18: a cell whose centroid is inside a tropical-rainforest rule box gets
\* the threshold 0.35, one whose centroid is inside an arid rule box gets at
\* most 0.20.
C18_RainforestAboveArid ==
  result # <<>> =>
    LET lat2 == args.cellBounds[2] + args.cellBounds[4]
        lon2 == args.cellBounds[1] + args.cellBounds[3]
    IN /\ TropicalRainforestBox(lat2, lon2) => result.threshold = 3500
       /\ AridBox(lat2, lon2) => result.threshold <= 2000

C20_InvalidBoundaryRejected ==
  \A s \in Sessions :
    LET b == session[s].boundary
        invalid == b.kind = "missing" \/ b.w = 0 \/ b.h = 0
    IN invalid => /\ session[s].pc \in {"idle", "rejected"}
                  /\ PublishedTypes(s) \cap {"analysis-started", "log", "grid-started"} = {}

\* C21: a step in which a token acquisition fails leaves the cached token
\* and its expiry as they were, and a call made while the cached token has
\* not expired returns that token.
C21_FailureKeepsCache ==
  [][\A c \in Callers :
       /\ (callers[c].pc = "requesting" /\ callers'[c].pc = "failed")
          => (sentinelAccessToken' = sentinelAccessToken /\ tokenExpiry' = tokenExpiry)
       /\ (callers[c].pc # "requesting" /\ callers'[c] # callers[c] /\ CachedTokenValid)
          => callers'[c] = [pc |-> "returned", got |-> sentinelAccessToken]]_vars

\* one caller's request has failed while the token the other caller holds
\* is still the cached one and has not expired
C21_Witness ==
  /\ callers["c1"].pc = "failed"
  /\ CachedTokenValid
  /\ callers["c2"] = [pc |-> "returned", got |-> sentinelAccessToken]
  /\ issued = 1

\* C28: at most one token-acquisition request is in flight at any time.
C28_SingleRefresh ==
  Cardinality({c \in Callers : callers[c].pc = "requesting"}) <= 1

\* C22: the cells of one year analysis never mix samples of the real source
\* with estimated ones.
C22_SingleStrategy ==
  ~ \E i, j \in 1..Len(cellLog) :
      /\ cellLog[i].source = "real"
      /\ cellLog[j].source \in {"estimated", "fallback"}

\* C23: a cell whose response from the real source carries no usable band
\* statistics is rejected; no samples of it are classified.
C23_EmptyResultRejected ==
  \A i \in 1..Len(cellLog) :
    cellLog[i].response = "nostats" => cellLog[i].outcome = "failed"

\* C26: among any progressInterval consecutively processed cells one emitted
\* grid-progress, and the last cell of a finished year emitted it.
C26_ProgressCadence ==
  LET interval == progressInterval(Len(grid))
  IN /\ \A i \in 1..Len(cellLog) :
          i + interval - 1 <= Len(cellLog)
          => \E k \in i..(i + interval - 1) : cellLog[k].progress
     /\ (ypc = "returned" /\ Len(grid) > 0) => cellLog[Len(grid)].progress

C25_ReadmeBands ==
  result # <<>> =>
    LET p == args.p
        score == result.p
        Within(lo, hi) == lo * 10000 <= score /\ score < hi * 10000
    IN IF p >= 5000 THEN Within(90, 100) \/ score = 1000000
       ELSE IF p >= 4000 THEN Within(80, 90)
       ELSE IF p >= 2500 THEN Within(60, 80)
       ELSE IF p >= 1500 THEN Within(40, 60)
       ELSE IF p >= 500 THEN Within(20, 40)
       ELSE Within(0, 20)

\* C27: when more cells pass the intersection filter than the budget allows,
\* the grid kept is the filtered list's cells at indices 0, step, 2*step, ...
\* with step = floor(count / budget), one per unit of budget, in order.
C27_UniformSubsample ==
  (ypc = "built" /\ Len(filteredCells) > MAX_GRID_CELLS) =>
    LET step == Len(filteredCells) \div MAX_GRID_CELLS
    IN grid = [i \in 1..MAX_GRID_CELLS |-> filteredCells[(i - 1) * step + 1]]

\* C29: the time window of a request starts strictly before it ends, and
\* both of its dates lie in the requested year capped at 2024.
C29_WindowWellFormed ==
  result # <<>> =>
    /\ DateBefore(result.from, result.to)
    /\ result.from.year = Min(args.year, LatestDataYear)
    /\ result.to.year = Min(args.year, LatestDataYear)

\* C30: what the stream events have put on the page belongs to the analysis
\* started last: results and progress are its own or none, and loading has
\* been turned off without an error only once it has ended.
C30_LatestAnalysisOnly ==
  Len(runs) > 0 =>
    /\ ui.analysisData \in {0, Len(runs)}
    /\ ui.progressData \in {0, Len(runs)}
    /\ (~ui.loading /\ ui.error = 0) => runs[Len(runs)].pc = "done"

====
